---- MODULE Spec2Model ----
(***************************************************************************)
(* A model of libevdev.Device (src/libevdev/device.py): the events() and   *)
(* sync() generators over the record codec, slot_value(), and the          *)
(* grab()/ungrab()/fd-setter handle lifecycle.                             *)
(***************************************************************************)
EXTENDS Integers, Sequences, FiniteSets, TLC

VARIABLES
    fd,           \* Device._libevdev.fd: the backing handle, or NoFd
    is_grabbed,   \* Device._is_grabbed
    gen,          \* the generator object the consumer currently iterates
    calls,        \* number of events()/sync() invocations made so far
    trace,        \* what the current generator did: reads, yields, raise, stop
    prev_end,     \* how the invocation before the current one ended
    pending,      \* codec: raw records waiting on the handle
    nemitted,     \* number of raw records the kernel has queued so far
    ndelivered,   \* number of queued records yielded as events so far
    sync_state,   \* codec: "none", "needed" or "replaying"
    syncq,        \* codec: the synchronization replay buffer
    num_slots,    \* Device.num_slots as an option: <<>> is None, <<n>> is n
    slots,        \* codec: slots[s][c], the per-slot values
    slot_result,  \* the last slot_value() call and its outcome
    clock_id,     \* codec: clock source set on each handle
    grab_log,     \* every grab/ungrab request that reached the OS layer
    grab_result,  \* outcome of the last grab()/ungrab()/fd assignment
    last_call,    \* how the caller's last grab()/ungrab() call went
    nops,         \* number of lifecycle operations made so far
    dev,          \* dev["A"]: the device; dev["D"]: what create_uinput_device returned
    kernel_abs,   \* the axis data committed to the kernel device
    cap_result    \* the last capability or uinput call and its outcome

streamVars ==
    <<gen, calls, trace, prev_end, pending, nemitted, ndelivered, sync_state, syncq>>
slotVars == <<num_slots, slots, slot_result>>
grabVars == <<is_grabbed, clock_id, grab_log, grab_result, last_call, nops>>
capVars == <<dev, kernel_abs, cap_result>>
vars == <<fd, streamVars, slotVars, grabVars, capVars>>

(***************************************************************************)
(* Bounds of the model.                                                    *)
(***************************************************************************)
MaxRecords == 3
MaxCalls == 3
MaxSlots == 2
MaxOps == 4
MaxEvents == 2

(***************************************************************************)
(* The event type and event code registry of libevdev, by the numbers      *)
(* the kernel gives them.                                                  *)
(***************************************************************************)
EV_SYN == [name |-> "EV_SYN", value |-> 0]
EV_KEY == [name |-> "EV_KEY", value |-> 1]
EV_ABS == [name |-> "EV_ABS", value |-> 3]

SYN_REPORT == [name |-> "SYN_REPORT", type |-> EV_SYN, value |-> 0]
SYN_DROPPED == [name |-> "SYN_DROPPED", type |-> EV_SYN, value |-> 3]
BTN_LEFT == [name |-> "BTN_LEFT", type |-> EV_KEY, value |-> 272]
ABS_X == [name |-> "ABS_X", type |-> EV_ABS, value |-> 0]
ABS_MT_SLOT == [name |-> "ABS_MT_SLOT", type |-> EV_ABS, value |-> 47]
ABS_MT_POSITION_X == [name |-> "ABS_MT_POSITION_X", type |-> EV_ABS, value |-> 53]
ABS_MT_POSITION_Y == [name |-> "ABS_MT_POSITION_Y", type |-> EV_ABS, value |-> 54]

EventCodes ==
    {SYN_REPORT, SYN_DROPPED, BTN_LEFT, ABS_X, ABS_MT_SLOT, ABS_MT_POSITION_X,
     ABS_MT_POSITION_Y}

NoCode == [name |-> "None", type |-> [name |-> "None", value |-> -1], value |-> -1]

\* libevdev.evbit(type, code): the EventCode with these numbers
evbit(t, c) ==
    IF \E e \in EventCodes : e.type.value = t /\ e.value = c
    THEN CHOOSE e \in EventCodes : e.type.value = t /\ e.value = c
    ELSE NoCode

(***************************************************************************)
(* Raw records and InputEvents.                                            *)
(***************************************************************************)
NoRecord == [type |-> -1, code |-> -1, value |-> 0, sec |-> 0, usec |-> 0]
NoEvent == [code |-> NoCode, value |-> 0, sec |-> 0, usec |-> 0]

\* the kernel stamps the n-th record it queues
RawRecord(c, v, n) ==
    [type |-> c.type.value, code |-> c.value, value |-> v, sec |-> n, usec |-> 100 + n]

\* the (code, value) pairs the kernel may queue
StreamInputs ==
    {<<SYN_REPORT, 0>>, <<SYN_DROPPED, 0>>, <<ABS_MT_SLOT, 1>>,
     <<ABS_MT_POSITION_X, 7>>}

\* the bodies a replay buffer may have before its closing SYN_REPORT
ReplayInputs == {<<SYN_DROPPED, 0>>, <<ABS_MT_POSITION_X, 9>>}

\* the replay buffers the codec may generate once n records were queued:
\* the state-changing records, closed by a SYN_REPORT
Replays(n) ==
    {<<RawRecord(SYN_REPORT, 0, n)>>} \cup
    {<<RawRecord(i[1], i[2], n), RawRecord(SYN_REPORT, 0, n)>> : i \in ReplayInputs}

(***************************************************************************)
(* Handles.                                                                *)
(***************************************************************************)
NoFd == "None"
Handles == {"blocking_a", "nonblocking_a"}

\* os.get_blocking(fd.fileno())
GetBlocking(h) == h = "blocking_a"

READ_FLAG_SYNC == "SYNC"
READ_FLAG_NORMAL == "NORMAL"
READ_FLAG_FORCE_SYNC == "FORCE_SYNC"
READ_FLAG_BLOCKING == "BLOCKING"
NoFlag == "unset"

(***************************************************************************)
(* The codec's "next record under flag F" (Libevdev.next_event).           *)
(***************************************************************************)
NextEvent(flags, replay) ==
    IF flags \in {READ_FLAG_NORMAL, READ_FLAG_BLOCKING}
    THEN IF pending = <<>>
         THEN [rec |-> NoRecord, pending |-> pending, syncq |-> syncq,
               sync_state |-> sync_state]
         ELSE [rec |-> Head(pending), pending |-> Tail(pending), syncq |-> syncq,
               sync_state |-> IF evbit(Head(pending).type, Head(pending).code) = SYN_DROPPED
                              THEN "needed" ELSE sync_state]
    ELSE IF sync_state = "needed"
            \/ (flags = READ_FLAG_FORCE_SYNC /\ sync_state = "none")
         THEN [rec |-> Head(replay), pending |-> pending, syncq |-> Tail(replay),
               sync_state |-> "replaying"]
         ELSE IF sync_state = "replaying" /\ syncq # <<>>
              THEN [rec |-> Head(syncq), pending |-> pending, syncq |-> Tail(syncq),
                    sync_state |-> "replaying"]
              ELSE [rec |-> NoRecord, pending |-> pending, syncq |-> <<>>,
                    sync_state |-> "none"]

\* a read under BLOCKING returns only once a record is there
ReadReturns(flags) == flags = READ_FLAG_BLOCKING => pending # <<>>

(***************************************************************************)
(* Capabilities, identity and axis data of a device, as the codec keeps    *)
(* them: types by number, codes by (type number, code number).             *)
(***************************************************************************)
EV_REP == [name |-> "EV_REP", value |-> 20]
ABS_Y == [name |-> "ABS_Y", type |-> EV_ABS, value |-> 1]
REP_DELAY == [name |-> "REP_DELAY", type |-> EV_REP, value |-> 0]
INPUT_PROP_POINTER == [name |-> "INPUT_PROP_POINTER", value |-> 0]

\* libevdev.types, t.codes and libevdev.props, as far as the model goes
CapTypes == {EV_KEY, EV_ABS, EV_REP}
CapCodes == {BTN_LEFT, ABS_Y, REP_DELAY}
CodesOf(t) == {c \in CapCodes : c.type = t}
Props == {INPUT_PROP_POINTER}

\* InputAbsInfo(...): every attribute may be None (<<>>)
InputAbsInfo(mn, mx, fz, fl, rs, vl) ==
    [minimum |-> mn, maximum |-> mx, fuzz |-> fz, flat |-> fl,
     resolution |-> rs, value |-> vl]

\* the codec's axis record of a code without data
ZeroAbs ==
    [minimum |-> 0, maximum |-> 0, fuzz |-> 0, flat |-> 0, resolution |-> 0,
     value |-> 0]

\* the data argument of enable(): None, an InputAbsInfo or an integer
NoData == [kind |-> "none", info |-> InputAbsInfo(<<>>, <<>>, <<>>, <<>>, <<>>, <<>>), v |-> 0]
AbsData(info) == [kind |-> "absinfo", info |-> info, v |-> 0]
IntData(v) == [kind |-> "int", info |-> InputAbsInfo(<<>>, <<>>, <<>>, <<>>, <<>>, <<>>), v |-> v]

DefaultId == [bustype |-> 0, vendor |-> 0, product |-> 0, version |-> 0]

\* libevdev.Device(): nothing enabled, no uinput
FreshDevice ==
    [exists |-> TRUE, types |-> {}, codes |-> {}, props |-> {},
     name |-> "", phys |-> <<>>, uniq |-> <<>>, id |-> DefaultId,
     abs |-> [c \in {x.value : x \in CodesOf(EV_ABS)} |-> ZeroAbs],
     rep |-> [c \in {x.value : x \in CodesOf(EV_REP)} |-> 0],
     uinput |-> FALSE]

\* no device object (nothing returned yet)
NoDevice == [FreshDevice EXCEPT !.exists = FALSE]

NoCapCall ==
    [op |-> "none", on |-> "A", arg |-> NoCode, data |-> NoData, new |-> <<>>,
     kernel |-> FALSE, raised |-> "None", codec_called |-> FALSE, written |-> <<>>, events |-> <<>>]

InitCapsIdle ==
    /\ dev = [k \in {"A", "D"} |-> IF k = "A" THEN FreshDevice ELSE NoDevice]
    /\ kernel_abs = [c \in {x.value : x \in CodesOf(EV_ABS)} |-> ZeroAbs]
    /\ cap_result = NoCapCall

(***************************************************************************)
(* Device.events() and Device.sync().                                      *)
(***************************************************************************)
\* a variant that never takes the early return
HasBackingHandle_Always(f) == TRUE

\* "if self._libevdev.fd is None: return []"
HasBackingHandle(f) == f # NoFd

\* a variant with the two branches exchanged
EventsFlags_Inverted(blocking) ==
    IF blocking THEN READ_FLAG_NORMAL ELSE READ_FLAG_BLOCKING

\* the flags events() reads with
EventsFlags(blocking) == IF blocking THEN READ_FLAG_BLOCKING ELSE READ_FLAG_NORMAL

\* the flags sync(force) reads with
SyncFlags(force) == IF force THEN READ_FLAG_FORCE_SYNC ELSE READ_FLAG_SYNC

\* a variant that also leaves the loop on a SYN_REPORT record
LoopContinues_StopsAtReport(rec) ==
    rec # NoRecord /\ ~(rec.type = SYN_REPORT.type.value /\ rec.code = SYN_REPORT.value)

\* a variant that leaves the loop on a SYN_DROPPED record, before its yield
LoopContinues_SkipsDropped(rec) ==
    rec # NoRecord /\ ~(rec.type = SYN_DROPPED.type.value /\ rec.code = SYN_DROPPED.value)

\* "while ev is not None"
LoopContinues(rec) == rec # NoRecord

\* a variant that passes the timestamp halves in the wrong order
InputEventOf_SwappedStamp(rec) ==
    [code |-> evbit(rec.type, rec.code), value |-> rec.value,
     sec |-> rec.usec, usec |-> rec.sec]

\* "code = libevdev.evbit(ev.type, ev.code); InputEvent(code, ev.value, ev.sec, ev.usec)"
InputEventOf(rec) ==
    [code |-> evbit(rec.type, rec.code), value |-> rec.value,
     sec |-> rec.sec, usec |-> rec.usec]

\* a variant that compares the event type alone
EventsRaisesAfter_AnySyn(code) == code.type = EV_SYN

\* events(), resumed after its yield: "if code == libevdev.EV_SYN.SYN_DROPPED: raise"
EventsRaisesAfter(code) == code = SYN_DROPPED

\* a variant with the drop check of events()
SyncRaisesAfter_LikeEvents(code) == code = SYN_DROPPED

\* sync(), resumed after its yield, goes straight to the next read
SyncRaisesAfter(code) == FALSE

NoGen == [inv |-> 0, kind |-> "none", force |-> FALSE, pc |-> "done",
          flags |-> NoFlag, code |-> NoCode]

Entry(g, what, flag, rec, ev) ==
    [inv |-> g.inv, kind |-> g.kind, force |-> g.force, what |-> what,
     flag |-> flag, rec |-> rec, ev |-> ev]

\* how the current invocation stands when the consumer turns to a new one
HowEnded ==
    IF gen.kind = "none" THEN "none"
    ELSE IF gen.pc # "done" THEN "abandoned"
    ELSE trace[Len(trace)].what

\* the consumer calls events(): a generator object, no code has run yet
CallEvents ==
    /\ calls < MaxCalls
    /\ calls' = calls + 1
    /\ gen' = [inv |-> calls + 1, kind |-> "events", force |-> FALSE, pc |-> "start",
               flags |-> NoFlag, code |-> NoCode]
    /\ trace' = <<>>
    /\ prev_end' = HowEnded
    /\ UNCHANGED <<fd, pending, nemitted, ndelivered, sync_state, syncq>>
    /\ UNCHANGED <<slotVars, grabVars, capVars>>

\* the consumer calls sync(force)
CallSync(force) ==
    /\ calls < MaxCalls
    /\ calls' = calls + 1
    /\ gen' = [inv |-> calls + 1, kind |-> "sync", force |-> force, pc |-> "start",
               flags |-> NoFlag, code |-> NoCode]
    /\ trace' = <<>>
    /\ prev_end' = HowEnded
    /\ UNCHANGED <<fd, pending, nemitted, ndelivered, sync_state, syncq>>
    /\ UNCHANGED <<slotVars, grabVars, capVars>>

\* the generator finishes without a read
Finish(what) ==
    /\ gen' = [gen EXCEPT !.pc = "done"]
    /\ trace' = Append(trace, Entry(gen, what, NoFlag, NoRecord, NoEvent))
    /\ UNCHANGED <<pending, ndelivered, sync_state, syncq>>

\* one read under flags, then either the yield of its event or the end
ReadAndYield(flags, replay) ==
    LET r == NextEvent(flags, replay) IN
    /\ ReadReturns(flags)
    /\ pending' = r.pending
    /\ syncq' = r.syncq
    /\ sync_state' = r.sync_state
    /\ IF LoopContinues(r.rec)
       THEN /\ gen' = [gen EXCEPT !.pc = "yielded", !.flags = flags,
                                  !.code = InputEventOf(r.rec).code]
            /\ ndelivered' = IF r.pending # pending THEN ndelivered + 1
                              ELSE ndelivered
            /\ trace' = trace \o
                 <<Entry(gen, "read", flags, r.rec, NoEvent),
                   Entry(gen, "yield", flags, NoRecord, InputEventOf(r.rec))>>
       ELSE /\ gen' = [gen EXCEPT !.pc = "done", !.flags = flags]
            /\ UNCHANGED ndelivered
            /\ trace' = trace \o
                 <<Entry(gen, "read", flags, r.rec, NoEvent),
                   Entry(gen, "stop", NoFlag, NoRecord, NoEvent)>>

\* one pull (next()) on an events() generator
PullEvents ==
    /\ gen.kind = "events"
    /\ gen.pc \in {"start", "yielded"}
    /\ IF gen.pc = "start"
       THEN IF ~HasBackingHandle(fd)
            THEN Finish("stop")
            ELSE ReadAndYield(EventsFlags(GetBlocking(fd)), <<>>)
       ELSE IF EventsRaisesAfter(gen.code)
            THEN Finish("raise")
            ELSE ReadAndYield(gen.flags, <<>>)
    /\ UNCHANGED <<fd, calls, prev_end, nemitted>>
    /\ UNCHANGED <<slotVars, grabVars, capVars>>

\* one pull (next()) on a sync() generator
PullSync(replay) ==
    /\ gen.kind = "sync"
    /\ gen.pc \in {"start", "yielded"}
    /\ IF gen.pc = "start"
       THEN IF ~HasBackingHandle(fd)
            THEN Finish("stop")
            ELSE ReadAndYield(SyncFlags(gen.force), replay)
       ELSE IF SyncRaisesAfter(gen.code)
            THEN Finish("raise")
            ELSE ReadAndYield(gen.flags, replay)
    /\ UNCHANGED <<fd, calls, prev_end, nemitted>>
    /\ UNCHANGED <<slotVars, grabVars, capVars>>

\* the kernel queues one more record on the handle
KernelEmit(c, v) ==
    /\ fd # NoFd
    /\ nemitted < MaxRecords
    /\ pending' = Append(pending, RawRecord(c, v, nemitted + 1))
    /\ nemitted' = nemitted + 1
    /\ UNCHANGED <<fd, gen, calls, trace, prev_end, ndelivered, sync_state, syncq>>
    /\ UNCHANGED <<slotVars, grabVars, capVars>>

InitStream ==
    /\ gen = NoGen
    /\ calls = 0
    /\ trace = <<>>
    /\ prev_end = "none"
    /\ pending = <<>>
    /\ nemitted = 0
    /\ ndelivered = 0
    /\ sync_state = "none"
    /\ syncq = <<>>

NoSlotCall ==
    [op |-> "none", slot |-> 0, code |-> NoCode, new |-> <<>>,
     raised |-> "None", ret |-> <<>>, touched |-> FALSE]

InitSlotsIdle ==
    /\ num_slots = <<>>
    /\ slots = <<>>
    /\ slot_result = NoSlotCall

\* Device.__init__: no uinput, not grabbed, the clock set when a handle is given
InitGrabIdle ==
    /\ is_grabbed = FALSE
    /\ clock_id = [h \in Handles |-> IF h = fd THEN "CLOCK_MONOTONIC" ELSE "unset"]
    /\ grab_log = <<>>
    /\ grab_result = [op |-> "init", raised |-> "None", os |-> "none"]
    /\ last_call = "none"
    /\ nops = 0

\* Device(fd) or Device(), then the event stream
Init ==
    /\ fd \in Handles \cup {NoFd}
    /\ InitStream
    /\ InitSlotsIdle
    /\ InitGrabIdle
    /\ InitCapsIdle

Next ==
    \/ CallEvents
    \/ \E force \in BOOLEAN : CallSync(force)
    \/ PullEvents
    \/ \E replay \in Replays(nemitted) : PullSync(replay)
    \/ \E i \in StreamInputs : KernelEmit(i[1], i[2])

Spec == Init /\ [][Next]_vars

(***************************************************************************)
(* Device.slot_value().                                                    *)
(***************************************************************************)
\* the per-slot codes the codec keeps a value for
SlotCodes == {ABS_MT_POSITION_X, ABS_MT_POSITION_Y}

\* the codes slot_value() is called with
SlotCallCodes == {ABS_X, ABS_MT_SLOT, ABS_MT_POSITION_X, ABS_MT_POSITION_Y}

\* the values slot_value() is given: none, or a number
SlotNewValues == {<<>>, <<5>>}

\* "self.num_slots is None or self.num_slots < slot"
SlotCheckFails(ns, slot) == ns = <<>> \/ ns[1] < slot

\* "event_code.value <= libevdev.EV_ABS.ABS_MT_SLOT.value"
CodeCheckFails(code) == code.value <= ABS_MT_SLOT.value

\* the codec's slot_value: the value slots[slot][code] after the optional
\* write, absent when the device has no such slot or code
CodecSlotValue(slot, code, new) ==
    IF slot \in DOMAIN slots /\ code \in SlotCodes
    THEN IF new = <<>>
         THEN [slots |-> slots, ret |-> <<slots[slot][code.name]>>]
         ELSE [slots |-> [slots EXCEPT ![slot][code.name] = new[1]], ret |-> new]
    ELSE [slots |-> slots, ret |-> <<>>]

SlotValue(slot, code, new) ==
    /\ IF SlotCheckFails(num_slots, slot) \/ CodeCheckFails(code)
       THEN /\ slot_result' = [op |-> "slot_value", slot |-> slot, code |-> code,
                               new |-> new, raised |-> "InvalidArgumentException",
                               ret |-> <<>>, touched |-> FALSE]
            /\ slots' = slots
       ELSE /\ slot_result' = [op |-> "slot_value", slot |-> slot, code |-> code,
                               new |-> new, raised |-> "None",
                               ret |-> CodecSlotValue(slot, code, new).ret,
                               touched |-> TRUE]
            /\ slots' = CodecSlotValue(slot, code, new).slots
    /\ UNCHANGED <<fd, num_slots>>
    /\ UNCHANGED <<streamVars, grabVars, capVars>>

\* a device without slots, or one with 1..MaxSlots of them, all values zero
InitSlot ==
    /\ fd \in Handles
    /\ num_slots \in {<<>>} \cup {<<n>> : n \in 1..MaxSlots}
    /\ slots = IF num_slots = <<>> THEN <<>>
               ELSE [s \in 0..(num_slots[1] - 1) |->
                        [c \in {x.name : x \in SlotCodes} |-> 0]]
    /\ slot_result = NoSlotCall
    /\ InitStream
    /\ InitGrabIdle
    /\ InitCapsIdle

NextSlot ==
    \E slot \in 0..(MaxSlots + 1), code \in SlotCallCodes, new \in SlotNewValues :
        SlotValue(slot, code, new)

SpecSlot == InitSlot /\ [][NextSlot]_vars

(***************************************************************************)
(* Device.grab(), Device.ungrab() and the fd setter.                       *)
(***************************************************************************)
\* what the OS layer may answer to a grab or release request on handle f
OsOutcomes(f) == IF f = NoFd THEN {"refused"} ELSE {"ok", "refused"}

\* grab(): "try: self._libevdev.grab() / except OSError: raise DeviceGrabError()",
\* then "self._is_grabbed = True"
GrabRaises(os) == IF os = "refused" THEN "DeviceGrabError" ELSE "None"
GrabbedAfterGrab(was, os) == IF os = "refused" THEN was ELSE TRUE

\* ungrab(): "self._libevdev.grab(False)", unguarded: an OSError of the
\* release request reaches the caller
UngrabRaises(os) == IF os = "refused" THEN "OSError" ELSE "None"

\* ungrab(): "self._is_grabbed = False", reached when the release did not raise
GrabbedAfterUngrab(was, os) == IF os = "refused" THEN was ELSE FALSE

Request(f, enable, os) == [fd |-> f, enable |-> enable, ok |-> os = "ok"]

Grab(os) ==
    /\ nops < MaxOps
    /\ nops' = nops + 1
    /\ grab_log' = Append(grab_log, Request(fd, TRUE, os))
    /\ grab_result' = [op |-> "grab", raised |-> GrabRaises(os), os |-> os]
    /\ is_grabbed' = GrabbedAfterGrab(is_grabbed, os)
    /\ last_call' = IF os = "ok" THEN "grab_ok" ELSE "grab_refused"
    /\ UNCHANGED <<fd, clock_id>>
    /\ UNCHANGED <<streamVars, slotVars, capVars>>

Ungrab(os) ==
    /\ nops < MaxOps
    /\ nops' = nops + 1
    /\ grab_log' = Append(grab_log, Request(fd, FALSE, os))
    /\ grab_result' = [op |-> "ungrab", raised |-> UngrabRaises(os), os |-> os]
    /\ is_grabbed' = GrabbedAfterUngrab(is_grabbed, os)
    /\ last_call' = "ungrab"
    /\ UNCHANGED <<fd, clock_id>>
    /\ UNCHANGED <<streamVars, slotVars, capVars>>

\* a setter that never refuses the assignment
SetFdRejected_Never(f) == FALSE

\* the fd setter: "if self._libevdev.fd is None: raise InvalidFileError()"
SetFdRejected(f) == f = NoFd

\* the fd setter: "if self._is_grabbed: self.grab()"
SetFdRegrabs(grabbed) == grabbed

\* device.fd = h, the OS layer answering os to the grab the setter may re-issue
SetFd(h, os) ==
    /\ nops < MaxOps
    /\ nops' = nops + 1
    /\ IF SetFdRejected(fd)
       THEN /\ grab_result' = [op |-> "fd_set", raised |-> "InvalidFileError",
                               os |-> "none"]
            /\ UNCHANGED <<fd, clock_id, grab_log, is_grabbed>>
       ELSE /\ fd' = h
            /\ clock_id' = [clock_id EXCEPT ![h] = "CLOCK_MONOTONIC"]
            /\ IF SetFdRegrabs(is_grabbed)
               THEN /\ grab_log' = Append(grab_log, Request(h, TRUE, os))
                    /\ grab_result' = [op |-> "fd_set", raised |-> GrabRaises(os),
                                       os |-> os]
                    /\ is_grabbed' = GrabbedAfterGrab(is_grabbed, os)
               ELSE /\ grab_result' = [op |-> "fd_set", raised |-> "None",
                                       os |-> "none"]
                    /\ UNCHANGED <<grab_log, is_grabbed>>
    /\ UNCHANGED last_call
    /\ UNCHANGED <<streamVars, slotVars, capVars>>

InitGrab ==
    /\ fd \in Handles \cup {NoFd}
    /\ InitStream
    /\ InitSlotsIdle
    /\ InitGrabIdle
    /\ InitCapsIdle

NextGrab ==
    \/ \E os \in OsOutcomes(fd) : Grab(os)
    \/ \E os \in OsOutcomes(fd) : Ungrab(os)
    \/ \E h \in Handles : \E os \in OsOutcomes(h) : SetFd(h, os)

SpecGrab == InitGrab /\ [][NextGrab]_vars

(***************************************************************************)
(* The codec's capability and axis operations (Libevdev.has_event, enable, *)
(* disable, enable_property, has_property, absinfo).                       *)
(***************************************************************************)
CodecHasType(d, t) == t \in d.types

\* a codec whose code bits do not depend on the type bit
CodecHasCode_IgnoresType(d, t, c) == <<t, c>> \in d.codes

\* a code is reported only while its type is enabled
CodecHasCode(d, t, c) == t \in d.types /\ <<t, c>> \in d.codes

CodecHasProperty(d, p) == p \in d.props

CodecEnableProperty(d, p) == [d EXCEPT !.props = @ \cup {p}]

CodecEnableType(d, t) == [d EXCEPT !.types = @ \cup {t}]

\* a field of the data given to enable(): absent fields become 0
FieldOrZero(f) == IF f = <<>> THEN 0 ELSE f[1]

\* the axis record the codec stores for the dict enable() hands over
AbsOfData(info) ==
    [minimum |-> FieldOrZero(info.minimum), maximum |-> FieldOrZero(info.maximum),
     fuzz |-> FieldOrZero(info.fuzz), flat |-> FieldOrZero(info.flat),
     resolution |-> FieldOrZero(info.resolution), value |-> 0]

\* enabling a code enables its type and stores the code's data
CodecEnableCode(d, t, c, data) ==
    LET e == [d EXCEPT !.types = @ \cup {t}, !.codes = @ \cup {<<t, c>>}]
    IN  IF t = EV_ABS.value /\ c \in DOMAIN d.abs /\ data.kind = "absinfo"
        THEN [e EXCEPT !.abs[c] = AbsOfData(data.info)]
        ELSE IF t = EV_REP.value /\ c \in DOMAIN d.rep /\ data.kind = "int"
             THEN [e EXCEPT !.rep[c] = data.v]
             ELSE e

\* disabling a type clears the type bit and keeps the code bits
CodecDisableType(d, t) == [d EXCEPT !.types = @ \ {t}]

CodecDisableCode(d, t, c) == [d EXCEPT !.codes = @ \ {<<t, c>>}]

\* merging new values into an axis record: absent fields are untouched
MergeAbs(old, new) ==
    [f \in DOMAIN old |-> IF new[f] = <<>> THEN old[f] ELSE new[f][1]]

\* the InputAbsInfo built from the codec's answer
AbsInfoOf(r) ==
    InputAbsInfo(<<r.minimum>>, <<r.maximum>>, <<r.fuzz>>, <<r.flat>>,
                 <<r.resolution>>, <<r.value>>)

\* Libevdev.absinfo(code, new_values, kernel): the device after the call, the
\* kernel's axis data after the call, and the answer (<<>> when the device
\* does not have the code)
CodecAbsinfo(d, kabs, c, new, kernel) ==
    IF ~CodecHasCode(d, EV_ABS.value, c) \/ c \notin DOMAIN d.abs
    THEN [dev |-> d, kabs |-> kabs, ret |-> <<>>]
    ELSE IF new = <<>>
         THEN [dev |-> d, kabs |-> kabs, ret |-> <<d.abs[c]>>]
         ELSE LET merged == MergeAbs(d.abs[c], new[1])
              IN  [dev |-> [d EXCEPT !.abs[c] = merged],
                   kabs |-> IF kernel THEN [kabs EXCEPT ![c] = merged] ELSE kabs,
                   ret |-> <<merged>>]

(***************************************************************************)
(* Device.has_event, has_property, evbits, properties, enable, disable and *)
(* absinfo.                                                                *)
(***************************************************************************)
\* "evcode.type" exists on an EventCode and raises AttributeError on a type
IsEventCode(e) == "type" \in DOMAIN e

HasEvent(d, e) ==
    IF IsEventCode(e)
    THEN CodecHasCode(d, e.type.value, e.value)
    ELSE CodecHasType(d, e.value)

HasProperty(d, p) == CodecHasProperty(d, p.value)

\* evbits: the enabled types, each with the codes has_event reports
Evbits(d) ==
    [t \in {x \in CapTypes : HasEvent(d, x)} |->
        {c \in CodesOf(t) : HasEvent(d, c)}]

Properties(d) == {p \in Props : HasProperty(d, p)}

\* enable(): "raise InvalidArgumentException()" for an EV_ABS code without an
\* InputAbsInfo and for an EV_REP code without data
EnableRejected(e, data) ==
    /\ e \notin Props
    /\ IsEventCode(e)
    /\ \/ e.type = EV_ABS /\ data.kind # "absinfo"
       \/ e.type = EV_REP /\ data.kind = "none"

\* the device after enable(e, data) went through
EnableOn(d, e, data) ==
    IF e \in Props
    THEN CodecEnableProperty(d, e.value)
    ELSE IF IsEventCode(e)
         THEN CodecEnableCode(d, e.type.value, e.value, data)
         ELSE CodecEnableType(d, e.value)

\* the device after disable(e) went through
DisableOn(d, e) ==
    IF IsEventCode(e)
    THEN CodecDisableCode(d, e.type.value, e.value)
    ELSE CodecDisableType(d, e.value)

\* an absinfo() that hands every call to the codec
AbsinfoRejected_Never(new, kernel) == FALSE

\* absinfo(): "if new_values is None and kernel: raise"
AbsinfoRejected(new, kernel) == new = <<>> /\ kernel

CapCall(op, on, arg, data, kernel, raised, called) ==
    [op |-> op, on |-> on, arg |-> arg, data |-> data, new |-> <<>>,
     kernel |-> kernel, raised |-> raised, codec_called |-> called, written |-> <<>>,
     events |-> <<>>]

\* the data a caller gives to enable()
EnableData ==
    {NoData, IntData(250),
     AbsData(InputAbsInfo(<<0>>, <<100>>, <<>>, <<>>, <<>>, <<>>))}

\* the new values a caller gives to absinfo()
AbsinfoNewValues ==
    {<<>>, <<InputAbsInfo(<<>>, <<>>, <<>>, <<>>, <<72>>, <<>>)>>}

\* what the codec may do with the data enable() hands over unchecked: an
\* EV_REP code with data that is no integer is either taken without its data
\* or refused with a TypeError
CodecEnableAnswers(e, data) ==
    IF e \notin Props /\ IsEventCode(e) /\ e.type = EV_REP /\ data.kind = "absinfo"
    THEN {"accepts", "TypeError"}
    ELSE {"accepts"}

\* device.enable(e, data), the codec answering ans
Enable(e, data, ans) ==
    /\ IF EnableRejected(e, data)
       THEN /\ cap_result' = CapCall("enable", "A", e, data, FALSE,
                                     "InvalidArgumentException", FALSE)
            /\ UNCHANGED dev
       ELSE IF ans = "TypeError"
            THEN /\ cap_result' = CapCall("enable", "A", e, data, FALSE,
                                          "TypeError", TRUE)
                 /\ UNCHANGED dev
            ELSE /\ dev' = [dev EXCEPT !["A"] = EnableOn(@, e, data)]
                 /\ cap_result' = CapCall("enable", "A", e, data, FALSE,
                                          "None", TRUE)
    /\ UNCHANGED <<fd, kernel_abs, streamVars, slotVars, grabVars>>

\* device.disable(e)
Disable(e) ==
    /\ IF e \in Props
       THEN /\ cap_result' = CapCall("disable", "A", e, NoData, FALSE,
                                     "NotImplementedError", FALSE)
            /\ UNCHANGED dev
       ELSE /\ dev' = [dev EXCEPT !["A"] = DisableOn(@, e)]
            /\ cap_result' = CapCall("disable", "A", e, NoData, FALSE, "None", TRUE)
    /\ UNCHANGED <<fd, kernel_abs, streamVars, slotVars, grabVars>>

\* device.absinfo(code, new, kernel)
Absinfo(code, new, kernel) ==
    /\ IF AbsinfoRejected(new, kernel)
       THEN /\ cap_result' = [CapCall("absinfo", "A", code, NoData, kernel,
                                      "InvalidArgumentException", FALSE)
                                EXCEPT !.new = new]
            /\ UNCHANGED <<dev, kernel_abs>>
       ELSE LET r == CodecAbsinfo(dev["A"], kernel_abs, code.value, new, kernel)
            IN  /\ dev' = [dev EXCEPT !["A"] = r.dev]
                /\ kernel_abs' = r.kabs
                /\ cap_result' = [CapCall("absinfo", "A", code, NoData, kernel,
                                          "None", TRUE)
                                    EXCEPT !.new = new]
    /\ UNCHANGED <<fd, streamVars, slotVars, grabVars>>

\* Libevdev.event_value(type, code, new_value): the device after the call;
\* the value of an enabled axis or repeat code is replaced, other codes have
\* no value in this model
CodecEventValue(d, t, c, new) ==
    IF new = <<>> \/ ~CodecHasCode(d, t, c)
    THEN d
    ELSE IF t = EV_ABS.value /\ c \in DOMAIN d.abs
         THEN [d EXCEPT !.abs[c].value = new[1]]
         ELSE IF t = EV_REP.value /\ c \in DOMAIN d.rep
              THEN [d EXCEPT !.rep[c] = new[1]]
              ELSE d

\* the new values a caller gives to event_value()
EventValueNew == {<<>>, <<250>>}

\* device.event_value(code, new)
EventValue(code, new) ==
    /\ dev' = [dev EXCEPT !["A"] =
                   CodecEventValue(@, code.type.value, code.value, new)]
    /\ cap_result' = CapCall("event_value", "A", code,
                             IF new = <<>> THEN NoData ELSE IntData(new[1]),
                             FALSE, "None", TRUE)
    /\ UNCHANGED <<fd, kernel_abs, streamVars, slotVars, grabVars>>

InitCaps ==
    /\ fd \in Handles
    /\ InitStream
    /\ InitSlotsIdle
    /\ InitGrabIdle
    /\ InitCapsIdle

NextCaps ==
    \/ \E e \in CapTypes \cup CapCodes \cup Props : \E data \in EnableData :
           \E ans \in CodecEnableAnswers(e, data) : Enable(e, data, ans)
    \/ \E e \in CapTypes \cup CapCodes \cup Props : Disable(e)
    \/ \E code \in CapCodes : \E new \in AbsinfoNewValues :
           \E kernel \in BOOLEAN : Absinfo(code, new, kernel)
    \/ \E code \in CapCodes : \E new \in EventValueNew : EventValue(code, new)

SpecCaps == InitCaps /\ [][NextCaps]_vars

(***************************************************************************)
(* Device.create_uinput_device, send_events, devnode and syspath.          *)
(***************************************************************************)
\* self.absinfo(c), self.event_value(c) or None: the data the factory reads
\* from the source for code c
ReplayData(src, c) ==
    IF c.type = EV_ABS
    THEN LET r == CodecAbsinfo(src, kernel_abs, c.value, <<>>, FALSE).ret
         IN  IF r = <<>> THEN NoData ELSE AbsData(AbsInfoOf(r[1]))
    ELSE IF c.type = EV_REP
         THEN IntData(src.rep[c.value])
         ELSE NoData

\* the codes the factory's two loops visit: those listed in self.evbits
ReplayedCodes(src) == UNION {Evbits(src)[t] : t \in DOMAIN Evbits(src)}

\* d.enable(c, data) for every code of cs
RECURSIVE ReplayCodes(_, _, _)
ReplayCodes(src, d, cs) ==
    IF cs = {}
    THEN d
    ELSE LET c == CHOOSE x \in cs : TRUE
         IN  ReplayCodes(src, EnableOn(d, c, ReplayData(src, c)), cs \ {c})

\* d = libevdev.Device(); d.name = self.name; d.id = self.id
NewFrom(src) == [FreshDevice EXCEPT !.name = src.name, !.id = src.id]

\* "for p in self.properties: self.enable(p)": the source after the loop
SourceAfterProps(src) ==
    [src EXCEPT !.props = @ \cup {p.value : p \in Properties(src)}]

\* the device the factory returns
Created(src) ==
    [ReplayCodes(src, NewFrom(src), ReplayedCodes(src)) EXCEPT !.uinput = TRUE]

\* a devnode that does not depend on how the device was made
Devnode_Always(d) == <<"/dev/input/eventN">>

\* devnode: None unless the device holds a uinput device
Devnode(d) == IF ~d.uinput THEN <<>> ELSE <<"/dev/input/eventN">>

\* syspath: None unless the device holds a uinput device
Syspath(d) == IF ~d.uinput THEN <<>> ELSE <<"/sys/devices/virtual/input/inputN">>

\* an InputEvent handed to send_events: code and value may be None
SendEvent(code, value) == [code |-> code, value |-> value]

SendEventChoices ==
    {SendEvent(<<BTN_LEFT>>, <<1>>), SendEvent(<<SYN_REPORT>>, <<0>>),
     SendEvent(<<>>, <<1>>), SendEvent(<<BTN_LEFT>>, <<>>)}

SendInputs == UNION {[1..n -> SendEventChoices] : n \in 0..MaxEvents}

\* a send_events that validates the batch before it looks at the device
SendRaises_ValidatesFirst(d, events) ==
    IF \E i \in 1..Len(events) : events[i].code = <<>> \/ events[i].value = <<>>
    THEN "InvalidArgumentException"
    ELSE IF ~d.uinput THEN "InvalidFileError" ELSE "None"

\* what send_events raises: the three checks in the order of the code
SendRaises(d, events) ==
    IF ~d.uinput
    THEN "InvalidFileError"
    ELSE IF \E i \in 1..Len(events) : events[i].code = <<>>
         THEN "InvalidArgumentException"
         ELSE IF \E i \in 1..Len(events) : events[i].value = <<>>
              THEN "InvalidArgumentException"
              ELSE "None"

\* the record written for one event (the kernel fills in the time)
WrittenRecord(e) ==
    [type |-> e.code[1].type.value, code |-> e.code[1].value, value |-> e.value[1]]

\* a writer that terminates every batch with a SYN_REPORT of its own
SendWritten_WithReport(events) ==
    [i \in 1..Len(events) |-> WrittenRecord(events[i])]
        \o <<[type |-> EV_SYN.value, code |-> SYN_REPORT.value, value |-> 0]>>

\* the write_event calls of a batch that passed the checks
SendWritten(events) == [i \in 1..Len(events) |-> WrittenRecord(events[i])]

\* what the factory raises: d.enable() may refuse a code's data, and the
\* uinput subsystem may refuse to create the device
CreateRaises(src, os) ==
    IF \E c \in ReplayedCodes(src) : EnableRejected(c, ReplayData(src, c))
    THEN "InvalidArgumentException"
    ELSE IF os = "ok" THEN "None" ELSE "OSError"

\* d = device.create_uinput_device(), the uinput subsystem answering os
CreateUinputDevice(os) ==
    /\ IF CreateRaises(dev["A"], os) = "None"
       THEN /\ dev' = [dev EXCEPT !["A"] = SourceAfterProps(@),
                                  !["D"] = Created(dev["A"])]
            /\ cap_result' = CapCall("create", "A", NoCode, NoData, FALSE,
                                     "None", TRUE)
       ELSE /\ dev' = [dev EXCEPT !["A"] = SourceAfterProps(@)]
            /\ cap_result' = CapCall("create", "A", NoCode, NoData, FALSE,
                                     CreateRaises(dev["A"], os), TRUE)
    /\ UNCHANGED <<fd, kernel_abs, streamVars, slotVars, grabVars>>

\* dev[on].send_events(events)
SendEvents(on, events) ==
    /\ dev[on].exists
    /\ LET raised == SendRaises(dev[on], events)
       IN  cap_result' =
               [CapCall("send", on, NoCode, NoData, FALSE, raised,
                        raised = "None" /\ events # <<>>)
                EXCEPT !.events = events,
                       !.written = IF raised = "None" THEN SendWritten(events)
                                   ELSE <<>>]
    /\ UNCHANGED <<fd, dev, kernel_abs, streamVars, slotVars, grabVars>>

\* the values a caller gives to the identity setters
NameChoices == {"n"}
PhysChoices == {"usb-1"}
UniqChoices == {"u1"}
IdChoices == {[bustype |-> 3, vendor |-> 1, product |-> 2, version |-> 1]}

\* device.name = v
SetName(v) ==
    /\ dev' = [dev EXCEPT !["A"].name = v]
    /\ cap_result' = CapCall("set_name", "A", NoCode, NoData, FALSE, "None", TRUE)
    /\ UNCHANGED <<fd, kernel_abs, streamVars, slotVars, grabVars>>

\* device.phys = v
SetPhys(v) ==
    /\ dev' = [dev EXCEPT !["A"].phys = <<v>>]
    /\ cap_result' = CapCall("set_phys", "A", NoCode, NoData, FALSE, "None", TRUE)
    /\ UNCHANGED <<fd, kernel_abs, streamVars, slotVars, grabVars>>

\* device.uniq = v
SetUniq(v) ==
    /\ dev' = [dev EXCEPT !["A"].uniq = <<v>>]
    /\ cap_result' = CapCall("set_uniq", "A", NoCode, NoData, FALSE, "None", TRUE)
    /\ UNCHANGED <<fd, kernel_abs, streamVars, slotVars, grabVars>>

\* device.id = vals, vals holding all four keys
SetId(vals) ==
    /\ dev' = [dev EXCEPT !["A"].id = vals]
    /\ cap_result' = CapCall("set_id", "A", NoCode, NoData, FALSE, "None", TRUE)
    /\ UNCHANGED <<fd, kernel_abs, streamVars, slotVars, grabVars>>

\* the capability sets a source device starts with: nothing; a type with no
\* codes and a property; a type with a code; every type, code and property
CapabilityChoices ==
    {[types |-> {}, codes |-> {}, props |-> {}],
     [types |-> {EV_KEY}, codes |-> {}, props |-> Props],
     [types |-> {EV_KEY}, codes |-> {BTN_LEFT}, props |-> {}],
     [types |-> CapTypes, codes |-> CapCodes, props |-> Props]}

\* a fresh device after enable() gave it types ts, codes cs and properties ps
SourceDevice(ts, cs, ps) ==
    [FreshDevice EXCEPT
        !.types = {t.value : t \in ts},
        !.codes = {<<c.type.value, c.value>> : c \in cs},
        !.props = {p.value : p \in ps},
        !.abs = [v \in DOMAIN @ |->
                    IF <<EV_ABS.value, v>> \in {<<c.type.value, c.value>> : c \in cs}
                    THEN AbsOfData(InputAbsInfo(<<0>>, <<100>>, <<>>, <<>>, <<>>, <<>>))
                    ELSE ZeroAbs],
        !.rep = [v \in DOMAIN @ |->
                    IF <<EV_REP.value, v>> \in {<<c.type.value, c.value>> : c \in cs}
                    THEN 250 ELSE 0]]

InitUinput ==
    /\ fd \in {NoFd, "blocking_a"}
    /\ InitStream
    /\ InitSlotsIdle
    /\ InitGrabIdle
    /\ kernel_abs = [c \in {x.value : x \in CodesOf(EV_ABS)} |-> ZeroAbs]
    /\ cap_result = NoCapCall
    /\ \E caps \in CapabilityChoices :
          dev = [k \in {"A", "D"} |->
                    IF k = "A"
                    THEN SourceDevice(caps.types, caps.codes, caps.props)
                    ELSE NoDevice]

NextUinput ==
    \/ \E os \in {"ok", "refused"} : CreateUinputDevice(os)
    \/ \E on \in {"A", "D"} : \E events \in SendInputs : SendEvents(on, events)
    \/ \E v \in NameChoices : SetName(v)
    \/ \E v \in PhysChoices : SetPhys(v)
    \/ \E v \in UniqChoices : SetUniq(v)
    \/ \E vals \in IdChoices : SetId(vals)

SpecUinput == InitUinput /\ [][NextUinput]_vars

(***************************************************************************)
(* Properties of events() and sync(), checked under Spec.                  *)
(***************************************************************************)
IsNonEmptyRead(e) == e.what = "read" /\ e.rec # NoRecord
IsYield(e) == e.what = "yield"
Reads == SelectSeq(trace, IsNonEmptyRead)
Yields == SelectSeq(trace, IsYield)

\* C1: events() signals EventsDropped only right after it delivered the
\* SYN_DROPPED event, and a delivered SYN_DROPPED event is followed, on the
\* next pull, by the signal and by nothing else.
C1_DropSignalFollowsDroppedEvent ==
    \A k \in 1..Len(trace) :
        /\ trace[k].what = "raise" =>
              /\ k > 1
              /\ trace[k - 1].what = "yield"
              /\ trace[k - 1].ev.code = SYN_DROPPED
        /\ (/\ trace[k].kind = "events"
            /\ trace[k].what = "yield"
            /\ trace[k].ev.code = SYN_DROPPED
            /\ k < Len(trace)) =>
              /\ trace[k + 1].what = "raise"
              /\ k + 1 = Len(trace)

C1_Witness ==
    /\ gen.kind = "events"
    /\ Len(trace) > 2
    /\ trace[Len(trace)].what = "raise"
    /\ trace[1].rec # NoRecord
    /\ evbit(trace[1].rec.type, trace[1].rec.code) # SYN_DROPPED

\* C2: events() yields one InputEvent per record read, in record order, with
\* the record's type/code, value and timestamp: nothing skipped, duplicated
\* or reordered.
C2_OneEventPerRecord ==
    gen.kind = "events" =>
        /\ Len(Yields) = Len(Reads)
        /\ \A k \in 1..Len(Yields) :
              /\ Yields[k].ev.code.type.value = Reads[k].rec.type
              /\ Yields[k].ev.code.value = Reads[k].rec.code
              /\ Yields[k].ev.value = Reads[k].rec.value
              /\ Yields[k].ev.sec = Reads[k].rec.sec
              /\ Yields[k].ev.usec = Reads[k].rec.usec
        /\ \A k \in 2..Len(Yields) : Yields[k].ev.sec = Yields[k - 1].ev.sec + 1
        /\ \A k \in 1..Len(trace) :
              trace[k].what = "read" /\ trace[k].rec # NoRecord =>
                  k < Len(trace) /\ trace[k + 1].what = "yield"

C2_Witness ==
    /\ gen.kind = "events"
    /\ Len(Yields) = 3
    /\ Yields[1].ev.code = ABS_MT_SLOT
    /\ Yields[2].ev.code = ABS_MT_POSITION_X
    /\ Yields[3].ev.code = SYN_REPORT

\* C3: sync(force) never signals EventsDropped; a SYN_DROPPED record in the
\* replay is delivered as an ordinary event and the sequence goes on.
C3_SyncNeverSignalsDropped ==
    \A k \in 1..Len(trace) :
        trace[k].kind = "sync" =>
            /\ trace[k].what # "raise"
            /\ (trace[k].what = "yield" /\ k < Len(trace)) =>
                  trace[k + 1].what = "read"

C3_Witness ==
    /\ gen.kind = "sync"
    /\ Len(Yields) = 2
    /\ Yields[1].ev.code = SYN_DROPPED
    /\ Yields[2].ev.code = SYN_REPORT

\* C4: the sync(force=True) called once events() has signalled EventsDropped
\* yields a finite sequence whose last event is SYN_REPORT.
C4_ForcedSyncEndsInReport ==
    (gen.kind = "sync" /\ gen.force /\ prev_end = "raise") =>
        /\ \E r \in Replays(nemitted) : Len(Yields) <= Len(r)
        /\ gen.pc = "done" =>
              /\ trace[Len(trace)].what = "stop"
              /\ Len(Yields) > 0
              /\ Yields[Len(Yields)].ev.code = SYN_REPORT

C4_Witness ==
    /\ gen.kind = "sync"
    /\ gen.force
    /\ prev_end = "raise"
    /\ gen.pc = "done"
    /\ Len(Yields) = 2

\* C5: on a device with no backing handle, events() and sync() produce an
\* empty sequence, raise nothing and request no record from the codec.
C5_NoHandleEmptySequence ==
    fd = NoFd =>
        /\ \A k \in 1..Len(trace) : trace[k].what = "stop"
        /\ Len(trace) <= 1
        /\ (gen.kind # "none" /\ gen.pc = "done") => Len(trace) = 1
        /\ prev_end \in {"none", "stop", "abandoned"}

C5_Witness ==
    /\ fd = NoFd
    /\ gen.kind = "sync"
    /\ gen.force
    /\ gen.pc = "done"
    /\ prev_end = "stop"

\* C6: on a non-blocking handle every read of events() is under the NORMAL
\* flag, and the sequence ends at the first read that returns no record.
C6_NonBlockingNeverBlocks ==
    (gen.kind = "events" /\ fd # NoFd /\ ~GetBlocking(fd)) =>
        \A k \in 1..Len(trace) :
            trace[k].what = "read" =>
                /\ trace[k].flag = READ_FLAG_NORMAL
                /\ trace[k].rec = NoRecord =>
                      /\ k + 1 = Len(trace)
                      /\ trace[k + 1].what = "stop"
                      /\ gen.pc = "done"

C6_Witness ==
    /\ gen.kind = "events"
    /\ fd # NoFd
    /\ ~GetBlocking(fd)
    /\ gen.pc = "done"
    /\ Len(trace) = 2
    /\ trace[1].what = "read"
    /\ trace[1].rec = NoRecord

\* C22: every record the codec returned was yielded as an InputEvent before
\* the next read, in events() and in sync(); across all invocations, ended
\* or abandoned ones included, the records taken from the kernel's queue are
\* exactly the ones yielded, so that events() goes on with the record that
\* follows the last one delivered.
C22_ConsumedIsDelivered ==
    /\ \A k \in 1..Len(trace) :
          IsNonEmptyRead(trace[k]) =>
              /\ k < Len(trace)
              /\ trace[k + 1].what = "yield"
              /\ trace[k + 1].ev.code = evbit(trace[k].rec.type, trace[k].rec.code)
              /\ trace[k + 1].ev.value = trace[k].rec.value
    /\ ndelivered + Len(pending) = nemitted
    /\ \A i \in 1..Len(pending) : pending[i].sec = ndelivered + i
    /\ gen.kind = "events" =>
          \A k \in 1..Len(Reads) :
              Reads[k].rec.sec = ndelivered - Len(Reads) + k

C22_Witness ==
    /\ gen.kind = "events"
    /\ prev_end = "raise"
    /\ Len(Yields) = 1
    /\ Yields[1].ev.sec = 2
    /\ Yields[1].ev.code = ABS_MT_POSITION_X
    /\ ndelivered = 2

(***************************************************************************)
(* Properties of slot_value(), checked under SpecSlot.                     *)
(***************************************************************************)
\* C7: slot_value(slot, code, new_value) fails with InvalidArgument, without
\* touching any slot state, whenever num_slots is absent, slot >= num_slots,
\* or the code's ordinal is not above ABS_MT_SLOT.
C7_SlotValueRejects ==
    (/\ slot_result.op = "slot_value"
     /\ \/ num_slots = <<>>
        \/ slot_result.slot >= num_slots[1]
        \/ slot_result.code.value <= ABS_MT_SLOT.value) =>
        /\ slot_result.raised = "InvalidArgumentException"
        /\ ~slot_result.touched

(***************************************************************************)
(* Properties of the handle lifecycle, checked under SpecGrab.             *)
(***************************************************************************)
\* C8: a grab() the OS layer refuses is reported as DeviceGrabError and the
\* grabbed-state is false afterwards, also when an earlier grab() succeeded.
C8_RefusedGrabLeavesUngrabbed ==
    (grab_result.op = "grab" /\ grab_result.os = "refused") =>
        /\ grab_result.raised = "DeviceGrabError"
        /\ ~is_grabbed

\* C9: ungrab() always succeeds and leaves the grabbed-state false, whether
\* or not the release request to the OS layer fails.
C9_UngrabClearsGrabbed ==
    grab_result.op = "ungrab" =>
        /\ grab_result.raised = "None"
        /\ ~is_grabbed

\* C10: assigning a new handle to a grabbed device reports no error, also
\* when the grab the setter re-issues is refused.
C10_FailedRegrabIsSilent ==
    (grab_result.op = "fd_set" /\ grab_result.os = "refused") =>
        grab_result.raised = "None"

\* C11: a handle assignment that is accepted sets the monotonic clock on the
\* new handle; it issues a grab request when the caller's last grab()/ungrab()
\* call was a successful grab, and none when it was ungrab() or when there
\* was no such call.
C11_RebindRegrabsIffGrabbed ==
    (grab_result.op = "fd_set" /\ grab_result.raised # "InvalidFileError") =>
        /\ clock_id[fd] = "CLOCK_MONOTONIC"
        /\ last_call \in {"ungrab", "none"} => grab_result.os = "none"
        /\ last_call = "grab_ok" => grab_result.os # "none"

\* C12: a device without a handle never gets one: a handle assignment raises
\* InvalidFileError, sets no clock and issues no grab, and no other
\* operation gives the device a handle.
C12_HandleLessStaysHandleLess ==
    [][fd = NoFd =>
        /\ fd' = NoFd
        /\ clock_id' = clock_id
        /\ grab_result'.op = "fd_set" =>
              /\ grab_result'.raised = "InvalidFileError"
              /\ grab_log' = grab_log
              /\ is_grabbed' = is_grabbed]_vars

C12_Witness ==
    /\ fd = NoFd
    /\ grab_result.op = "fd_set"
    /\ grab_result.raised = "InvalidFileError"
    /\ nops > 1

\* the grab requests issued on handle h, in the order they were made
GrabRequestsOn(h) ==
    SelectSeq(grab_log, LAMBDA r : r.fd = h /\ r.enable)

\* C23: the grabbed flag is true only if the most recent grab request issued
\* on the handle now bound succeeded, after any grab(), ungrab() and handle
\* assignments.
C23_GrabbedMeansLastGrabSucceeded ==
    is_grabbed =>
        /\ GrabRequestsOn(fd) # <<>>
        /\ GrabRequestsOn(fd)[Len(GrabRequestsOn(fd))].ok

(***************************************************************************)
(* Properties of the capability operations, checked under SpecCaps.        *)
(***************************************************************************)
\* C19: absinfo(code, None, kernel=True) raises InvalidArgumentException for
\* every code without calling the codec, and leaves the device's axis data
\* and the kernel's axis data as they were.
C19_CommitWithoutValuesRejected ==
    [][(cap_result'.op = "absinfo" /\ cap_result'.kernel
            /\ cap_result'.new = <<>>) =>
        /\ cap_result'.raised = "InvalidArgumentException"
        /\ ~cap_result'.codec_called
        /\ dev' = dev
        /\ kernel_abs' = kernel_abs]_vars

C19_Witness ==
    /\ cap_result.op = "absinfo"
    /\ cap_result.kernel
    /\ cap_result.new = <<>>
    /\ cap_result.arg = ABS_Y
    /\ HasEvent(dev["A"], ABS_Y)
    /\ cap_result.raised = "InvalidArgumentException"

\* C20: has_event(c) is false for every code c whose type is disabled, also
\* when c was enabled earlier, and evbits has no entry for a disabled type
\* and lists under a type only codes that has_event reports.
C20_DisabledTypeHidesCodes ==
    /\ \A c \in CapCodes :
          ~HasEvent(dev["A"], c.type) => ~HasEvent(dev["A"], c)
    /\ \A t \in CapTypes :
          ~HasEvent(dev["A"], t) => t \notin DOMAIN Evbits(dev["A"])
    /\ \A t \in DOMAIN Evbits(dev["A"]) : \A c \in Evbits(dev["A"])[t] :
          HasEvent(dev["A"], t) /\ HasEvent(dev["A"], c)

C20_Witness ==
    /\ cap_result.op = "disable"
    /\ cap_result.arg = EV_KEY
    /\ <<EV_KEY.value, BTN_LEFT.value>> \in dev["A"].codes
    /\ EV_ABS \in DOMAIN Evbits(dev["A"])
    /\ ~HasEvent(dev["A"], BTN_LEFT)

\* the data is of the wrong type for the code: no InputAbsInfo for an
\* EV_ABS code, no integer for an EV_REP code
WrongDataType(e, data) ==
    /\ e \notin Props
    /\ IsEventCode(e)
    /\ \/ e.type = EV_ABS /\ data.kind # "absinfo"
       \/ e.type = EV_REP /\ data.kind # "int"

\* C21: enable(code, data) with data of the wrong type for the code raises
\* InvalidArgumentException and leaves the device as it was.
C21_WrongDataTypeRejected ==
    [][(cap_result'.op = "enable"
            /\ WrongDataType(cap_result'.arg, cap_result'.data)) =>
        /\ cap_result'.raised = "InvalidArgumentException"
        /\ dev' = dev]_vars

(***************************************************************************)
(* Properties of create_uinput_device, send_events, devnode and syspath,   *)
(* checked under SpecUinput.                                               *)
(***************************************************************************)
IsBadEvent(e) == e.code = <<>> \/ e.value = <<>>

\* C13: send_events on a device that create_uinput_device did not return
\* raises InvalidFileError and writes nothing, whatever the events are.
C13_SendNeedsUinput ==
    (cap_result.op = "send" /\ cap_result.on = "A") =>
        /\ cap_result.raised = "InvalidFileError"
        /\ cap_result.written = <<>>

C13_Witness ==
    /\ cap_result.op = "send"
    /\ cap_result.on = "A"
    /\ Len(cap_result.events) = 2
    /\ cap_result.events[2].code = <<>>
    /\ cap_result.raised = "InvalidFileError"

\* C14: send_events on a created device raises InvalidArgumentException and
\* writes nothing when any event of the batch lacks a code or a value;
\* otherwise it writes one record per event, in order, and nothing else.
C14_SendAllOrNothing ==
    (cap_result.op = "send" /\ cap_result.on = "D") =>
        IF \E i \in 1..Len(cap_result.events) : IsBadEvent(cap_result.events[i])
        THEN /\ cap_result.raised = "InvalidArgumentException"
             /\ cap_result.written = <<>>
        ELSE /\ cap_result.raised = "None"
             /\ Len(cap_result.written) = Len(cap_result.events)
             /\ \A i \in 1..Len(cap_result.events) :
                   cap_result.written[i] =
                       [type |-> cap_result.events[i].code[1].type.value,
                        code |-> cap_result.events[i].code[1].value,
                        value |-> cap_result.events[i].value[1]]

C14_Witness ==
    /\ cap_result.op = "send"
    /\ cap_result.on = "D"
    /\ Len(cap_result.events) = 2
    /\ ~IsBadEvent(cap_result.events[1])
    /\ cap_result.events[2].value = <<>>
    /\ cap_result.raised = "InvalidArgumentException"
    /\ cap_result.written = <<>>

\* C15: the evbits of the device create_uinput_device returns equal the
\* evbits of the source device, for every capability set of the source.
C15_EvbitsRoundTrip ==
    (cap_result.op = "create" /\ cap_result.raised = "None") =>
        Evbits(dev["D"]) = Evbits(dev["A"])

\* C16: has_property(p) on the device create_uinput_device returns equals
\* has_property(p) on the source device, for every property p.
C16_PropertiesCopied ==
    (cap_result.op = "create" /\ cap_result.raised = "None") =>
        \A p \in Props : HasProperty(dev["D"], p) = HasProperty(dev["A"], p)

\* C17: the device create_uinput_device returns has the name, phys, uniq and
\* id of the source device.
C17_IdentityCopied ==
    (cap_result.op = "create" /\ cap_result.raised = "None") =>
        /\ dev["D"].name = dev["A"].name
        /\ dev["D"].phys = dev["A"].phys
        /\ dev["D"].uniq = dev["A"].uniq
        /\ dev["D"].id = dev["A"].id

\* C18: devnode and syspath are None on the directly constructed device,
\* also after create_uinput_device was called on it, and both are present
\* on the device create_uinput_device returned.
C18_PathsOnlyOnCreated ==
    /\ Devnode(dev["A"]) = <<>>
    /\ Syspath(dev["A"]) = <<>>
    /\ dev["D"].exists => (Devnode(dev["D"]) # <<>> /\ Syspath(dev["D"]) # <<>>)

C18_Witness ==
    /\ cap_result.op = "create"
    /\ cap_result.raised = "None"
    /\ dev["D"].exists
    /\ fd # NoFd
====
